---- MODULE Spec2Model ----
(***************************************************************************)
(* Model of rfapi.apiclient.BaseApiClient: construction (identity string,  *)
(* credential resolution), the lazy authentication check, request          *)
(* preparation, response interpretation and error translation.             *)
(*                                                                         *)
(* Python values are records tagged with their type, so that None, strings *)
(* and objects stay distinct.  Exceptions are records carrying the class,  *)
(* the message, the response and the __cause__ set by raise_from.          *)
(***************************************************************************)
EXTENDS Integers, Sequences, FiniteSets, TLC

VARIABLES client, ctor, call, network_calls

vars == <<client, ctor, call, network_calls>>

\* ------------------------------------------------------------------------
\* Bounds of the model

\* Requests that reach the network before the model stops counting them.
MaxNetworkCalls == 2

\* ------------------------------------------------------------------------
\* Python values

None == [type |-> "NoneType"]

Str(s) == [type |-> "str", val |-> s]

PyInt(n) == [type |-> "int", num |-> n]

Dict(items) == [type |-> "dict", items |-> items]

List(elems) == [type |-> "list", elems |-> elems]

Ref(addr) == [type |-> "ref", addr |-> addr]

EmptyItems == [k \in {} |-> None]

\* bool(v): None, "" and 0 are false; an object that defines neither
\* __bool__ nor __len__ (requests.auth.AuthBase and its subclasses) is true.
Truthy(v) ==
    CASE v.type = "NoneType" -> FALSE
      [] v.type = "str" -> v.val # ""
      [] v.type = "int" -> v.num # 0
      [] v.type = "dict" -> DOMAIN v.items # {}
      [] v.type = "list" -> v.elems # <<>>
      [] OTHER -> TRUE

\* `a or b`
Or(a, b) == IF Truthy(a) THEN a ELSE b

\* str.format rendering of one field
Format(v) ==
    CASE v.type = "str" -> v.val
      [] v.type = "NoneType" -> "None"
      [] OTHER -> "<object>"

\* ------------------------------------------------------------------------
\* Exceptions

Exception(kind, msg, response) ==
    [type |-> "exception", kind |-> kind, msg |-> msg,
     response |-> response, cause |-> None]

\* future.utils.raise_from(exc, cause): exc is raised with __cause__ = cause
raise_from(exc, cause) == [exc EXCEPT !.cause = cause]

\* Classes caught by `except ValueError`: ValueError itself and the JSON
\* decode error of response.json().  The classes of rfapi.error derive from
\* Exception, AttributeError from Exception.
ValueErrorKinds == {"ValueError", "JSONDecodeError"}

Raise(exc) == [raised |-> exc, ret |-> None, events |-> <<>>]

Return(v) == [raised |-> None, ret |-> v, events |-> <<>>]

\* ------------------------------------------------------------------------
\* Module constants

DEFAULT_TIMEOUT == <<10, 120>>

REQUESTS_POOL_MAXSIZE == 16

\* platform.platform() of the host
HostPlatform == "Linux-6.1-x86_64"

\* ------------------------------------------------------------------------
\* BaseApiClient.__init__

\* rfapi.auth.RFTokenAuth(token, api_version): the token-based strategy
RFTokenAuth(token, api_version) ==
    [type |-> "RFTokenAuth", token |-> token, api_version |-> api_version]

isinstance_AuthBase(v) == v.type \in {"AuthBase", "RFTokenAuth"}

isinstance_basestring(v) == v.type = "str"

\* lines 83-108: the identity string
init_app_id(app_name, app_version, platform_id, pkg_name, pkg_version) ==
    LET ver == IF app_version = None THEN Str("1.0.0") ELSE app_version
        plat == IF platform_id = None THEN Str(HostPlatform) ELSE platform_id
        pn0 == IF pkg_name = None THEN Str("") ELSE pkg_name
        pv0 == IF pkg_version = None THEN Str("") ELSE pkg_version
        named == pn0 # None \/ pv0 # None
        pn1 == IF named THEN Or(pn0, Str("package")) ELSE pn0
        pv1 == IF named THEN Or(pv0, Str("1.0.0")) ELSE pv0
        pkg_info == IF named THEN Format(pn1) \o "/" \o Format(pv1) ELSE ""
    IN  Format(app_name) \o "+" \o Format(ver) \o " (" \o Format(plat)
            \o ") " \o pkg_info

\* lines 110-116: the pooled session, mounted for both schemes
init_request_session ==
    [type |-> "Session",
     adapters |-> [scheme \in {"http://", "https://"} |->
                     [pool_maxsize |-> REQUESTS_POOL_MAXSIZE,
                      pool_block |-> TRUE]]]

\* A resolver that knows strategy objects only and drops a string token.
init_auth_strategy_only(auth, api_version) ==
    IF isinstance_AuthBase(auth) THEN auth ELSE None

\* lines 118-123: the authentication handler, if any
init_auth(auth, api_version) ==
    IF isinstance_AuthBase(auth) THEN auth
    ELSE IF isinstance_basestring(auth) THEN RFTokenAuth(auth, api_version)
    ELSE None

\* lines 74-78: the attributes assigned before app_name is looked at
init_settings(a) ==
    [_url |-> a.url, _proxies |-> a.proxies, _timeout |-> a.timeout,
     _accept_gzip |-> a.accept_gzip, verify |-> a.verify]

\* line 81: the constructor gives up; the caller receives no object and
\* `ret` shows the attributes assigned until then
init_missing_app_name(a) ==
    [raised |-> Exception("ValueError",
                          Str("Parameter app_name required to make calls to RecordedFuture!"),
                          None),
     ret |-> init_settings(a), events |-> <<>>]

\* lines 83-123: the rest of the constructor
init_client(a) ==
    LET s == init_settings(a)
    IN  Return([_url |-> s._url, _proxies |-> s._proxies,
                _timeout |-> s._timeout, _accept_gzip |-> s._accept_gzip,
                verify |-> s.verify,
                _app_id |-> init_app_id(a.app_name, a.app_version,
                                        a.platform_id, a.pkg_name,
                                        a.pkg_version),
                _request_session |-> init_request_session,
                _auth |-> init_auth(a.auth, a.api_version)])

\* A constructor that turns down every falsy app_name, the empty string
\* included.
init_falsy_app_name(a) ==
    IF ~Truthy(a.app_name) THEN init_missing_app_name(a) ELSE init_client(a)

\* BaseApiClient.__init__
init(a) ==
    IF a.app_name = None THEN init_missing_app_name(a) ELSE init_client(a)

\* ------------------------------------------------------------------------
\* BaseApiClient._check_auth

_check_auth(self) ==
    IF ~Truthy(self._auth)
    THEN Raise(Exception("MissingAuthError", None, None))
    ELSE Return(None)

\* ------------------------------------------------------------------------
\* BaseApiClient._prepare_headers

\* Header preparation with the gzip test the wrong way round.
_prepare_headers_gzip_inverted(self) ==
    LET headers == [k \in {"X-RF-USER-Agent"} |-> self._app_id]
    IN  IF self._accept_gzip
        THEN Return([k \in {"X-RF-USER-Agent", "Accept-Encoding"} |->
                       IF k = "Accept-Encoding" THEN "" ELSE headers[k]])
        ELSE Return(headers)

_prepare_headers(self) ==
    LET headers == [k \in {"X-RF-USER-Agent"} |-> self._app_id]
    IN  IF ~self._accept_gzip
        THEN Return([k \in {"X-RF-USER-Agent", "Accept-Encoding"} |->
                       IF k = "Accept-Encoding" THEN "" ELSE headers[k]])
        ELSE Return(headers)

\* ------------------------------------------------------------------------
\* BaseApiClient._prepare_params

\* Mappings live on a heap: a sequence of dict objects, each a function from
\* its keys to values, a nested mapping being held by reference.  The caller
\* and the client see the same objects.

RECURSIVE Reach(_, _, _)
\* the addresses reachable from `frontier`
Reach(h, frontier, seen) ==
    IF frontier = {} THEN seen
    ELSE LET found == seen \cup frontier
             next == { h[a][k].addr :
                         <<a, k>> \in { <<b, j>> \in frontier \X UNION {DOMAIN h[b] : b \in frontier} :
                                          j \in DOMAIN h[b] /\ h[b][j].type = "ref" } }
         IN  Reach(h, next \ found, found)

\* copy.deepcopy(h[addr]): every reachable object is copied once, references
\* among the copies follow the memo
deepcopy(h, addr) ==
    LET olds == Reach(h, {addr}, {})
        rank(a) == Cardinality({ b \in olds : b < a }) + 1
        memo(a) == Len(h) + rank(a)
        source(i) == CHOOSE a \in olds : rank(a) = i
        copy_of(a) == [k \in DOMAIN h[a] |->
                         IF h[a][k].type = "ref"
                         THEN Ref(memo(h[a][k].addr))
                         ELSE h[a][k]]
    IN  [heap |-> h \o [i \in 1..Cardinality(olds) |-> copy_of(source(i))],
         ret |-> Ref(memo(addr))]

\* h[addr][key] = value
setitem(h, addr, key, value) ==
    [h EXCEPT ![addr] = [k \in DOMAIN h[addr] \cup {key} |->
                           IF k = key THEN value ELSE h[addr][k]]]

\* Parameter preparation that writes into the caller's own mapping.
_prepare_params_in_place(self, h, params) ==
    LET copied == IF params = None
                  THEN [heap |-> Append(h, EmptyItems), ret |-> Ref(Len(h) + 1)]
                  ELSE [heap |-> h, ret |-> params]
    IN  [raised |-> None, ret |-> copied.ret, events |-> <<>>,
         heap |-> setitem(copied.heap, copied.ret.addr, "app_id",
                          Str(self._app_id))]

_prepare_params(self, h, params) ==
    LET copied == IF params = None
                  THEN [heap |-> Append(h, EmptyItems), ret |-> Ref(Len(h) + 1)]
                  ELSE deepcopy(h, params.addr)
    IN  [raised |-> None, ret |-> copied.ret, events |-> <<>>,
         heap |-> setitem(copied.heap, copied.ret.addr, "app_id",
                          Str(self._app_id))]

RECURSIVE Value(_, _)
\* the value a reference stands for, nested mappings included
Value(h, v) ==
    IF v.type = "ref"
    THEN Dict([k \in DOMAIN h[v.addr] |-> Value(h, h[v.addr][k])])
    ELSE v

\* ------------------------------------------------------------------------
\* HTTP responses (requests.Response)

\* Header values are searched for substrings, so they are kept as sequences
\* of characters.
Text(chars) == [type |-> "str", chars |-> chars]

APPLICATION_JSON ==
    <<"a", "p", "p", "l", "i", "c", "a", "t", "i", "o", "n", "/",
      "j", "s", "o", "n">>

CSV == <<"c", "s", "v">>

CT_JSON_UTF8 ==
    APPLICATION_JSON \o
    <<";", " ", "c", "h", "a", "r", "s", "e", "t", "=", "u", "t", "f", "-", "8">>

CT_CSV == <<"t", "e", "x", "t", "/", "c", "s", "v">>

CT_CSV_UTF8 ==
    CT_CSV \o
    <<";", " ", "c", "h", "a", "r", "s", "e", "t", "=", "u", "t", "f", "-", "8">>

CT_PLAIN == <<"t", "e", "x", "t", "/", "p", "l", "a", "i", "n">>

CT_UPPER_CSV == <<"t", "e", "x", "t", "/", "C", "S", "V">>

\* `sub in s` on strings
Contains(s, sub) ==
    \E i \in 1..(Len(s) - Len(sub) + 1) : SubSeq(s, i, i + Len(sub) - 1) = sub

\* response.headers.get(name, default)
headers_get(headers, name, default) ==
    IF name \in DOMAIN headers THEN headers[name] ELSE default

\* response.json(): the body texts of the model and what they decode to.
\* Anything that is not JSON raises the decoder's ValueError subclass.
response_json(response) ==
    CASE response.text = "{}" ->
           Return(Dict(EmptyItems))
      [] response.text = "{\"error\": \"invalid token\"}" ->
           Return(Dict([k \in {"error"} |-> Str("invalid token")]))
      [] response.text = "{\"error\": null}" ->
           Return(Dict([k \in {"error"} |-> None]))
      [] response.text = "{\"count\": \"2\"}" ->
           Return(Dict([k \in {"count"} |-> Str("2")]))
      [] response.text = "[]" ->
           Return(List(<<>>))
      [] response.text = "\"oops\"" ->
           Return(Str("oops"))
      [] OTHER ->
           Raise(Exception("JSONDecodeError",
                           Str("Expecting value: line 1 column 1 (char 0)"),
                           None))

\* obj.get(key): only a dict has the method
py_get(obj, key) ==
    IF obj.type = "dict"
    THEN Return(IF key \in DOMAIN obj.items THEN obj.items[key] ELSE None)
    ELSE Raise(Exception("AttributeError",
                         Str("object has no attribute 'get'"), None))

\* ------------------------------------------------------------------------
\* BaseApiClient._raise_http_error

\* Error translation without the 401 branch.
translate_error_no_401(response, error_msg, req_http_err) ==
    IF error_msg # None
    THEN raise_from(Exception("HttpError", error_msg, response),
                    req_http_err)
    ELSE None

\* Error translation that does not test whether a message is there.
translate_error_any_message(response, error_msg, req_http_err) ==
    IF response.status_code = 401
    THEN raise_from(Exception("AuthenticationError", error_msg, response),
                    req_http_err)
    ELSE raise_from(Exception("HttpError", error_msg, response),
                    req_http_err)

\* lines 136-141: what the status code and the message make of the failure;
\* None when neither branch is taken
translate_error(response, error_msg, req_http_err) ==
    IF response.status_code = 401
    THEN raise_from(Exception("AuthenticationError", error_msg, response),
                    req_http_err)
    ELSE IF error_msg # None
    THEN raise_from(Exception("HttpError", error_msg, response),
                    req_http_err)
    ELSE None

_raise_http_error(response, req_http_err) ==
    LET ct == headers_get(response.headers, "content-type", None)
        \* what the try block raises, None when it runs to its end
        body ==
            IF ct # None /\ Contains(ct.chars, APPLICATION_JSON)
            THEN LET resp == response_json(response)
                 IN  IF resp.raised # None THEN resp.raised
                     ELSE LET error_msg == py_get(resp.ret, "error")
                          IN  IF error_msg.raised # None
                              THEN error_msg.raised
                              ELSE translate_error(response, error_msg.ret,
                                                   req_http_err)
            ELSE None
    IN  IF body # None /\ body.kind \notin ValueErrorKinds
        THEN Raise(body)
        ELSE Raise(req_http_err)

\* ------------------------------------------------------------------------
\* BaseApiClient._parse_json_response, _validate_json_response,
\* _make_json_response, _make_response

\* The hook of the base class does nothing.
_validate_json_response(self, resp) == Return(None)

\* self._validate_json_response(resp): the base hook, or the override of a
\* subclass that rejects the structure.
call_validate_json_response(hook, self, resp) ==
    IF hook = "base"
    THEN _validate_json_response(self, resp)
    ELSE Raise(Exception("RemoteServerError", Str("rejected by hook"), None))

\* JSON parsing that never runs the validation hook.
_parse_json_response_unvalidated(self, response, hook) ==
    LET resp == response_json(response)
    IN  IF resp.raised # None
        THEN [raised |-> raise_from(
                           Exception("JsonParseError", resp.raised.msg,
                                     response),
                           resp.raised),
              ret |-> None, events |-> <<"json">>]
        ELSE [raised |-> None, ret |-> resp.ret, events |-> <<"json">>]

_parse_json_response(self, response, hook) ==
    LET resp == response_json(response)
    IN  IF resp.raised # None
        THEN [raised |-> raise_from(
                           Exception("JsonParseError", resp.raised.msg,
                                     response),
                           resp.raised),
              ret |-> None, events |-> <<"json">>]
        ELSE LET v == call_validate_json_response(hook, self, resp.ret)
             IN  IF v.raised # None
                 THEN [raised |-> v.raised, ret |-> None,
                       events |-> <<"json", "_validate_json_response">>]
                 ELSE [raised |-> None, ret |-> resp.ret,
                       events |-> <<"json", "_validate_json_response">>]

_make_json_response(resp, response) ==
    [type |-> "JSONQueryResponse", result |-> resp, response |-> response]

CSVQueryResponse(text, response) ==
    [type |-> "CSVQueryResponse", result |-> text, response |-> response]

BaseQueryResponse(text, response) ==
    [type |-> "BaseQueryResponse", result |-> text, response |-> response]

\* Response interpretation that wants the content type to be exactly
\* text/csv.
_make_response_exact_csv(self, expect_json, response, hook) ==
    IF expect_json
    THEN LET resp == _parse_json_response(self, response, hook)
         IN  IF resp.raised # None THEN resp
             ELSE [raised |-> None,
                   ret |-> _make_json_response(resp.ret, response),
                   events |-> resp.events \o <<"_make_json_response">>]
    ELSE IF headers_get(response.headers, "content-type",
                        Text(<<>>)).chars = CT_CSV
         THEN Return(CSVQueryResponse(response.text, response))
         ELSE Return(BaseQueryResponse(response.text, response))

_make_response(self, expect_json, response, hook) ==
    IF expect_json
    THEN LET resp == _parse_json_response(self, response, hook)
         IN  IF resp.raised # None THEN resp
             ELSE [raised |-> None,
                   ret |-> _make_json_response(resp.ret, response),
                   events |-> resp.events \o <<"_make_json_response">>]
    ELSE IF Contains(headers_get(response.headers, "content-type",
                                 Text(<<>>)).chars, CSV)
         THEN Return(CSVQueryResponse(response.text, response))
         ELSE Return(BaseQueryResponse(response.text, response))

\* ------------------------------------------------------------------------
\* Inputs

NoClient == [type |-> "no client"]

\* The last call on the client: its arguments, what it raised or returned,
\* the steps it took, and the heap it left (for calls that work on one).
NoCall == [op |-> "none", args |-> None, raised |-> None, ret |-> None,
           events |-> <<>>, heap |-> <<>>]

AuthInputs ==
    { None, PyInt(42), [type |-> "AuthBase", name |-> "custom"],
      Str("token"), Str("") }

AppNameInputs == { None, Str(""), Str("myapp") }

AppVersionInputs == { None, Str("2.3") }

PlatformInputs == { None, Str("win32") }

PkgNameInputs == { None, Str(""), Str("lib") }

PkgVersionInputs == { None, Str(""), Str("0.9") }

\* Constructor calls: every combination of the identity arguments with one
\* credential, and every credential with and without app_name and gzip.
CtorArgs ==
    [auth : {Str("token")}, url : {"https://api.recordedfuture.com/query/"},
     proxies : {None}, timeout : {DEFAULT_TIMEOUT},
     app_name : AppNameInputs, app_version : AppVersionInputs,
     pkg_name : PkgNameInputs, pkg_version : PkgVersionInputs,
     accept_gzip : {TRUE}, platform_id : PlatformInputs,
     api_version : {1}, verify : {TRUE}]
    \cup
    [auth : AuthInputs, url : {"https://api.recordedfuture.com/query/"},
     proxies : {None}, timeout : {DEFAULT_TIMEOUT},
     app_name : {None, Str("myapp")}, app_version : {None},
     pkg_name : {None}, pkg_version : {None},
     accept_gzip : BOOLEAN, platform_id : {None},
     api_version : {1}, verify : {TRUE}]

Constructed == client # NoClient

\* The caller's parameters: None, or a heap holding the mapping at address 1.
ParamInputs ==
    { [heap |-> <<>>, params |-> None],
      [heap |-> << EmptyItems >>, params |-> Ref(1)],
      [heap |-> << [k \in {"q"} |-> Str("type:Company")] >>, params |-> Ref(1)],
      [heap |-> << [k \in {"q", "app_id"} |->
                      IF k = "q" THEN Str("type:Company") ELSE Str("caller")] >>,
       params |-> Ref(1)],
      [heap |-> << [k \in {"q", "output"} |->
                      IF k = "q" THEN Str("type:Company") ELSE Ref(2)],
                   [k \in {"count"} |-> Str("10")] >>,
       params |-> Ref(1)] }

NoHeaders == [k \in {} |-> None]

HeaderInputs ==
    { NoHeaders } \cup
    { [k \in {"content-type"} |-> Text(c)] :
        c \in { APPLICATION_JSON, CT_JSON_UTF8, CT_CSV, CT_CSV_UTF8, CT_PLAIN,
                CT_UPPER_CSV } }

BodyInputs ==
    { "id,name", "{}", "{\"error\": \"invalid token\"}", "{\"error\": null}",
      "{\"count\": \"2\"}", "[]", "\"oops\"" }

HookInputs == { "base", "override" }

\* Responses the transport reports as failures.
FailedResponses ==
    [status_code : {401, 500},
     headers : { h \in HeaderInputs :
                   "content-type" \in DOMAIN h =>
                       h["content-type"].chars \in
                           { APPLICATION_JSON, CT_JSON_UTF8, CT_PLAIN } },
     text : BodyInputs]

\* Calls of _make_response: every body read as JSON with either hook, and
\* every content type read as text.
MakeResponseInputs ==
    [expect_json : {TRUE},
     response : [status_code : {200},
                 headers : { [k \in {"content-type"} |-> Text(c)] :
                               c \in { APPLICATION_JSON, CT_PLAIN } },
                 text : BodyInputs],
     hook : HookInputs]
    \cup
    [expect_json : {FALSE},
     response : [status_code : {200}, headers : HeaderInputs,
                 text : { "id,name", "{}" }],
     hook : {"base"}]

\* requests.exceptions.HTTPError raised by response.raise_for_status()
HTTPError(response) == Exception("HTTPError", Str("HTTP error"), response)


\* ------------------------------------------------------------------------
\* Actions

Init ==
    /\ client = NoClient
    /\ ctor = None
    /\ call = NoCall
    /\ network_calls = 0

\* BaseApiClient(auth, url, ...)
Construct ==
    /\ ctor = None
    /\ \E a \in CtorArgs :
         LET r == init(a)
         IN  /\ ctor' = [type |-> "ctor", args |-> a,
                         app_id |-> IF r.raised = None
                                    THEN Str(r.ret._app_id) ELSE None]
             /\ client' = IF r.raised = None THEN r.ret ELSE NoClient
             /\ call' = [op |-> "__init__", args |-> None,
                         raised |-> r.raised, ret |-> r.ret,
                         events |-> <<>>, heap |-> <<>>]
    /\ UNCHANGED network_calls

\* A request-sending operation of a subclass: the authentication check comes
\* first, the network call only after it passed.
Request ==
    /\ Constructed
    /\ LET r == _check_auth(client)
       IN  IF r.raised # None
           THEN /\ call' = [op |-> "request", args |-> None,
                            raised |-> r.raised, ret |-> None,
                            events |-> <<"_check_auth">>, heap |-> <<>>]
                /\ UNCHANGED network_calls
           ELSE /\ network_calls < MaxNetworkCalls
                /\ network_calls' = network_calls + 1
                /\ call' = [op |-> "request", args |-> None,
                            raised |-> None, ret |-> None,
                            events |-> <<"_check_auth", "send">>,
                            heap |-> <<>>]
    /\ UNCHANGED <<client, ctor>>

PrepareHeaders ==
    /\ Constructed
    /\ LET r == _prepare_headers(client)
       IN  call' = [op |-> "_prepare_headers", args |-> None,
                    raised |-> r.raised, ret |-> r.ret, events |-> <<>>,
                    heap |-> <<>>]
    /\ UNCHANGED <<client, ctor, network_calls>>

PrepareParams ==
    /\ Constructed
    /\ \E p \in ParamInputs :
         LET r == _prepare_params(client, p.heap, p.params)
         IN  call' = [op |-> "_prepare_params", args |-> p,
                      raised |-> r.raised, ret |-> r.ret, events |-> <<>>,
                      heap |-> r.heap]
    /\ UNCHANGED <<client, ctor, network_calls>>

MakeResponse ==
    /\ Constructed
    /\ \E a \in MakeResponseInputs :
         LET r == _make_response(client, a.expect_json, a.response, a.hook)
         IN  call' = [op |-> "_make_response", args |-> a,
                      raised |-> r.raised, ret |-> r.ret, events |-> r.events,
                      heap |-> <<>>]
    /\ UNCHANGED <<client, ctor, network_calls>>

RaiseHttpError ==
    /\ Constructed
    /\ \E response \in FailedResponses :
         LET req_http_err == HTTPError(response)
             r == _raise_http_error(response, req_http_err)
         IN  call' = [op |-> "_raise_http_error",
                      args |-> [response |-> response,
                                req_http_err |-> req_http_err],
                      raised |-> r.raised, ret |-> r.ret, events |-> r.events,
                      heap |-> <<>>]
    /\ UNCHANGED <<client, ctor, network_calls>>

Next ==
    \/ Construct
    \/ Request
    \/ PrepareParams
    \/ PrepareHeaders
    \/ MakeResponse
    \/ RaiseHttpError

Spec == Init /\ [][Next]_vars

\* ------------------------------------------------------------------------
\* What the calls are checked against

\* the class of the exception the last call raised
RaisedKind == IF call.raised = None THEN "none" ELSE call.raised.kind

\* the content type of a response names JSON
JsonContentType(response) ==
    /\ "content-type" \in DOMAIN response.headers
    /\ Contains(response.headers["content-type"].chars, APPLICATION_JSON)

\* the body of a response is JSON text
ParsesAsJson(response) == response_json(response).raised = None

\* the body of a response is a JSON object
ParsesAsObject(response) ==
    /\ ParsesAsJson(response)
    /\ response_json(response).ret.type = "dict"

\* the message of the `error` field of a JSON object body, None without one
ErrorMessage(response) ==
    LET items == response_json(response).ret.items
    IN  IF "error" \in DOMAIN items THEN items["error"] ELSE None

IsRaiseHttpError == call.op = "_raise_http_error"

\* C1: a failed response with a JSON content type and an object body whose
\* `error` field holds a message m is raised as AuthenticationError when the
\* status code is 401 and as HttpError for any other status code; the error
\* carries m and the response, and its cause is the transport error.
C1_StructuredFailureTranslated ==
    IsRaiseHttpError =>
        LET response == call.args.response
        IN  ( /\ JsonContentType(response)
              /\ ParsesAsObject(response)
              /\ ErrorMessage(response) # None )
            => /\ call.raised # None
               /\ call.raised.kind =
                     IF response.status_code = 401
                     THEN "AuthenticationError" ELSE "HttpError"
               /\ call.raised.msg = ErrorMessage(response)
               /\ call.raised.response = response
               /\ call.raised.cause = call.args.req_http_err

\* C1 witness: a 401 with a structured body became an AuthenticationError.
C1_Witness ==
    /\ IsRaiseHttpError
    /\ call.args.response.status_code = 401
    /\ JsonContentType(call.args.response)
    /\ ParsesAsObject(call.args.response)
    /\ ErrorMessage(call.args.response) = Str("invalid token")
    /\ RaisedKind = "AuthenticationError"

\* C2, as claimed: for every status code, 401 included, a response with a
\* non-JSON content type, or an unparsable body, or an object body without an
\* `error` field has the transport error raised again unchanged, and
\* AuthenticationError is raised only for a 401 whose JSON body has an error
\* message.
C2_FallbackForEveryStatus ==
    IsRaiseHttpError =>
        LET response == call.args.response
        IN  /\ ( \/ ~JsonContentType(response)
                 \/ ~ParsesAsJson(response)
                 \/ ( /\ ParsesAsObject(response)
                      /\ ErrorMessage(response) = None ) )
               => call.raised = call.args.req_http_err
            /\ RaisedKind = "AuthenticationError"
               => /\ response.status_code = 401
                  /\ JsonContentType(response)
                  /\ ParsesAsObject(response)
                  /\ ErrorMessage(response) # None

\* C2, amended: a response with a non-JSON content type or an unparsable
\* body has the transport error raised again unchanged whatever the status
\* code; so has an object body without an error message when the status code
\* is not 401.  A 401 with a JSON content type and an object body is raised
\* as AuthenticationError even without a message (the message is then None),
\* and AuthenticationError is raised for no other response.
C2_FallbackExceptStructured401 ==
    IsRaiseHttpError =>
        LET response == call.args.response
            structured == JsonContentType(response) /\ ParsesAsObject(response)
        IN  /\ ( \/ ~JsonContentType(response)
                 \/ ~ParsesAsJson(response)
                 \/ ( /\ ParsesAsObject(response)
                      /\ ErrorMessage(response) = None
                      /\ response.status_code # 401 ) )
               => call.raised = call.args.req_http_err
            /\ RaisedKind = "AuthenticationError"
               <=> (response.status_code = 401 /\ structured)
            /\ ( /\ response.status_code = 401
                 /\ structured
                 /\ ErrorMessage(response) = None )
               => /\ call.raised.msg = None
                  /\ call.raised.cause = call.args.req_http_err

\* C2 witness: a 401 whose JSON object body has no `error` field was raised
\* as AuthenticationError.
C2_Witness ==
    /\ IsRaiseHttpError
    /\ call.args.response.status_code = 401
    /\ JsonContentType(call.args.response)
    /\ call.args.response.text = "{}"
    /\ RaisedKind = "AuthenticationError"

\* the auth argument of the constructor is a strategy object or a string
AuthSupplied ==
    isinstance_AuthBase(ctor.args.auth) \/ isinstance_basestring(ctor.args.auth)

\* C3: construction does not fail for want of credentials; a client built
\* without a strategy object or string token holds no handler, each of its
\* request attempts ends in MissingAuthError at _check_auth and none reaches
\* the network; a client built with a strategy object or a string token
\* never raises MissingAuthError.
C3_LazyMissingAuth ==
    (ctor # None /\ ctor.args.app_name # None) =>
        /\ Constructed
        /\ ~AuthSupplied =>
              /\ client._auth = None
              /\ network_calls = 0
              /\ call.op = "request" =>
                    /\ RaisedKind = "MissingAuthError"
                    /\ call.events = <<"_check_auth">>
        /\ AuthSupplied =>
              /\ client._auth # None
              /\ RaisedKind # "MissingAuthError"
              /\ call.op = "request" =>
                    call.events = <<"_check_auth", "send">>

\* C3 witness: a client built without credentials was asked to send a
\* request and refused before the network call.
C3_Witness ==
    /\ Constructed
    /\ ctor.args.auth = None
    /\ call.op = "request"
    /\ RaisedKind = "MissingAuthError"
    /\ network_calls = 0

IsPrepareParams == call.op = "_prepare_params"

\* the caller's mapping as it was before the call (empty when None was given)
CallerParams ==
    IF call.args.params = None THEN Dict(EmptyItems)
    ELSE Value(call.args.heap, call.args.params)

\* the mapping the call returned
PreparedParams == Value(call.heap, call.ret)

\* every object the caller had is as it was
CallerHeapUntouched ==
    /\ Len(call.heap) >= Len(call.args.heap)
    /\ SubSeq(call.heap, 1, Len(call.args.heap)) = call.args.heap

\* C4, as claimed: the caller's mapping is left as it was, and the returned
\* mapping holds every key of it with its value, plus exactly one more key,
\* app_id, holding the identity string.
C4_SupersetPlusOneKey ==
    IsPrepareParams =>
        /\ CallerHeapUntouched
        /\ \A k \in DOMAIN CallerParams.items :
              /\ k \in DOMAIN PreparedParams.items
              /\ PreparedParams.items[k] = CallerParams.items[k]
        /\ DOMAIN PreparedParams.items \ DOMAIN CallerParams.items = {"app_id"}
        /\ PreparedParams.items["app_id"] = Str(client._app_id)

\* C4, amended: the caller's mapping is left as it was; the returned mapping
\* is a new object holding the caller's keys and app_id, every key other
\* than app_id with the caller's value and app_id with the identity string,
\* which replaces an app_id of the caller's.
C4_CopyWithAppIdSet ==
    IsPrepareParams =>
        /\ CallerHeapUntouched
        /\ call.ret.addr > Len(call.args.heap)
        /\ DOMAIN PreparedParams.items =
              DOMAIN CallerParams.items \cup {"app_id"}
        /\ \A k \in DOMAIN CallerParams.items \ {"app_id"} :
              PreparedParams.items[k] = CallerParams.items[k]
        /\ PreparedParams.items["app_id"] = Str(client._app_id)

\* C4 witness: parameters that already had an app_id were prepared.
C4_Witness ==
    /\ IsPrepareParams
    /\ call.args.params # None
    /\ "app_id" \in DOMAIN CallerParams.items
    /\ CallerParams.items["app_id"] # Str(client._app_id)
    /\ PreparedParams.items["app_id"] = Str(client._app_id)

\* the identity string the documented format gives for the arguments
DocumentedIdentity(a) ==
    Format(a.app_name) \o "+"
        \o (IF a.app_version = None THEN "1.0.0" ELSE Format(a.app_version))
        \o " (" \o Format(a.platform_id) \o ") "
        \o (IF a.pkg_name = None THEN "" ELSE Format(a.pkg_name))
        \o "/"
        \o (IF a.pkg_version = None THEN "" ELSE Format(a.pkg_version))

\* C5: the identity string is app_name + "+" + app_version + " (" +
\* platform_id + ") " + pkg_name + "/" + pkg_version, an omitted app_version
\* being "1.0.0" and an omitted pkg_name or pkg_version being empty.
C5_IdentityFormat ==
    (Constructed /\ ctor.args.platform_id # None) =>
        client._app_id = DocumentedIdentity(ctor.args)

ClientAttributes ==
    {"_url", "_proxies", "_timeout", "_accept_gzip", "verify", "_app_id",
     "_request_session", "_auth"}

\* C6: construction succeeds whenever app_name is not None, whatever the
\* other arguments, and raises ValueError exactly when app_name is None; a
\* failed construction leaves no client, and neither identity string nor
\* session nor auth handler was set up.
C6_AppNameRequired ==
    ctor # None =>
        /\ Constructed <=> ctor.args.app_name # None
        /\ Constructed => DOMAIN client = ClientAttributes
        /\ ~Constructed =>
              /\ call.op = "__init__"
              /\ RaisedKind = "ValueError"
              /\ DOMAIN call.ret \cap {"_app_id", "_request_session", "_auth"} = {}
        /\ (Constructed /\ call.op = "__init__") =>
              /\ call.raised = None
              /\ call.ret = client

\* C6 witness: an empty app_name was accepted, and elsewhere a None refused.
C6_Witness ==
    /\ ctor # None
    /\ call.op = "__init__"
    /\ \/ ctor.args.app_name = Str("") /\ Constructed
       \/ ctor.args.app_name = None /\ RaisedKind = "ValueError"

IsMakeResponse == call.op = "_make_response"

\* C7: when JSON is expected the body is parsed first; a body that does not
\* parse raises JsonParseError carrying the response, caused by the decode
\* error, with neither hook nor wrapper; a body that parses goes through the
\* validation hook before it is wrapped, and a JSON wrapper comes back only
\* if the hook did not raise.
C7_JsonInterpretation ==
    (IsMakeResponse /\ call.args.expect_json) =>
        LET response == call.args.response
            parsed == response_json(response)
        IN  /\ call.events # <<>> /\ Head(call.events) = "json"
            /\ ~ParsesAsJson(response) =>
                  /\ RaisedKind = "JsonParseError"
                  /\ call.raised.response = response
                  /\ call.raised.cause = parsed.raised
                  /\ call.raised.cause.kind = "JSONDecodeError"
                  /\ call.events = <<"json">>
                  /\ call.ret = None
            /\ ParsesAsJson(response) =>
                  /\ Len(call.events) >= 2
                  /\ call.events[2] = "_validate_json_response"
                  /\ RaisedKind # "JsonParseError"
                  /\ call.args.hook = "override" =>
                        /\ RaisedKind = "RemoteServerError"
                        /\ call.ret = None
                        /\ Len(call.events) = 2
                  /\ call.args.hook = "base" =>
                        /\ call.raised = None
                        /\ call.events = <<"json", "_validate_json_response",
                                           "_make_json_response">>
                        /\ call.ret = [type |-> "JSONQueryResponse",
                                       result |-> parsed.ret,
                                       response |-> response]

\* C7 witness: a body that parsed was turned down by the hook, so that no
\* wrapper came back.
C7_Witness ==
    /\ IsMakeResponse
    /\ call.args.expect_json
    /\ ParsesAsJson(call.args.response)
    /\ call.args.hook = "override"
    /\ RaisedKind = "RemoteServerError"

\* C8: when JSON is not expected the body is never parsed and no
\* JsonParseError is raised; the result is a CSV wrapper exactly when the
\* content-type header contains "csv" and a plain-text wrapper otherwise,
\* also without the header; the wrapper holds the text and the response.
C8_TextInterpretation ==
    (IsMakeResponse /\ ~call.args.expect_json) =>
        LET response == call.args.response
            csv == /\ "content-type" \in DOMAIN response.headers
                   /\ Contains(response.headers["content-type"].chars, CSV)
        IN  /\ call.raised = None
            /\ \A i \in 1..Len(call.events) : call.events[i] # "json"
            /\ call.ret.type =
                  IF csv THEN "CSVQueryResponse" ELSE "BaseQueryResponse"
            /\ call.ret.result = response.text
            /\ call.ret.response = response

\* C8 witness: a text/csv content type with parameters gave a CSV wrapper
\* around a body that is no JSON.
C8_Witness ==
    /\ IsMakeResponse
    /\ ~call.args.expect_json
    /\ call.args.response.headers = [k \in {"content-type"} |-> Text(CT_CSV_UTF8)]
    /\ ~ParsesAsJson(call.args.response)
    /\ call.ret.type = "CSVQueryResponse"

\* C9: whatever was called before, the client keeps the identity string and
\* the gzip setting of its construction; _prepare_headers returns the
\* identity header with that string, the one _prepare_params puts under
\* app_id, and the Accept-Encoding header, empty, exactly when accept_gzip
\* was disabled.
C9_HeadersAndIdentity ==
    Constructed =>
        /\ Str(client._app_id) = ctor.app_id
        /\ client._accept_gzip = ctor.args.accept_gzip
        /\ call.op = "_prepare_headers" =>
              /\ call.raised = None
              /\ "X-RF-USER-Agent" \in DOMAIN call.ret
              /\ Str(call.ret["X-RF-USER-Agent"]) = ctor.app_id
              /\ "Accept-Encoding" \in DOMAIN call.ret
                    <=> ~ctor.args.accept_gzip
              /\ "Accept-Encoding" \in DOMAIN call.ret
                    => call.ret["Accept-Encoding"] = ""
              /\ DOMAIN call.ret \subseteq {"X-RF-USER-Agent", "Accept-Encoding"}
        /\ IsPrepareParams =>
              PreparedParams.items["app_id"] = ctor.app_id

\* C9 witness: a client built with gzip disabled prepared its headers.
C9_Witness ==
    /\ Constructed
    /\ ~ctor.args.accept_gzip
    /\ call.op = "_prepare_headers"
    /\ call.ret["Accept-Encoding"] = ""
    /\ Str(call.ret["X-RF-USER-Agent"]) = ctor.app_id

\* C10: a call of _raise_http_error never returns and raises
\* AuthenticationError, HttpError or the transport error it was given,
\* whatever the status code, the content type and the body.
C10_OneOfThreeErrors ==
    IsRaiseHttpError =>
        /\ call.raised # None
        /\ \/ RaisedKind \in {"AuthenticationError", "HttpError"}
           \/ call.raised = call.args.req_http_err

====
